---- MODULE Spec2Model ----
(***************************************************************************)
(* A model of the zero-copy HTTP message-head parser of src/src/lib.rs:    *)
(* parse_request and parse_response.  Each call is a single pass over the  *)
(* buffer (one action per arm of the scanning loop's match) followed by    *)
(* the slice extraction, which either returns the borrowed views or        *)
(* panics on a slice index that is out of range.                           *)
(*                                                                         *)
(* Indices are the code's: 0-based offsets into the buffer.  A slice is a  *)
(* record [lo, hi] standing for the bytes data[lo .. hi) of the buffer.    *)
(***************************************************************************)
EXTENDS Integers, Sequences, FiniteSets, TLC

VARIABLES
    kind,           \* which function was called: "parse_request" / "parse_response"
    data,           \* the input buffer, a sequence of bytes
    pc,             \* "loop", "slices", "returned", "panic_invalid_state", "panic_slice_index"
    i,              \* index of the next byte the loop's iterator yields
    state,          \* the scanner state (RequestParseState / ResponseParseState)
    is_end,         \* the is_end flag of state Headers
    method,         \* parse_request: end index of the method
    url,            \* parse_request: end index of the url
    http_version,   \* end index of the http version (both functions)
    status_code,    \* parse_response: end index of the status code
    status,         \* parse_response: end index of the status
    header,         \* index of the last ordinary byte of the open header key / value
    headers_key,    \* end indices of the header keys
    headers_value,  \* end indices of the header values
    message,        \* <<the parts the buffer was laid out from>>, or <<>> for a raw buffer
    first,          \* <<>> during the first call, then <<what the first call ended with>>
    result          \* <<>> until the call returns, then <<the Request / Response>>

vars == <<first, kind, data, message, pc, i, state, is_end, method, url, http_version,
          status_code, status, header, headers_key, headers_value, result>>

(***************************************************************************)
(* Bytes.                                                                  *)
(***************************************************************************)
SP == 32
LF == 10
CR == 13
COLON == 58

(***************************************************************************)
(* Bounds of the model.                                                    *)
(***************************************************************************)
\* Most header lines of a generated message with regular parts.
MaxHeaders == 2
\* Most header lines of a generated message with irregular parts.
MaxBadHeaders == 2
\* Longest buffer of the exhaustive family (every byte string up to it).
MaxLen == 5

(***************************************************************************)
(* Sequences.                                                              *)
(***************************************************************************)
\* Every sequence over S of length at most n.
SeqsUpTo(S, n) == UNION {[1..k -> S] : k \in 0..n}

Min(a, b) == IF a <= b THEN a ELSE b

\* The byte of buffer d at 0-based index n.
Byte(d, n) == d[n + 1]

\* The bytes a slice s stands for.
Bytes(d, s) == SubSeq(d, s.lo + 1, s.hi)

(***************************************************************************)
(* Slice indexing, with the bounds checks of the language: &data[a..=b]    *)
(* is data[a .. b+1) and panics unless a <= b+1 <= len; &data[a..] panics  *)
(* unless a <= len.                                                        *)
(***************************************************************************)
RangeInclusiveOk(a, b, len) == a <= b + 1 /\ b + 1 <= len

\* A faulty variant: the range taken as exclusive of its end index.
RangeExclusive(a, b) == [lo |-> a, hi |-> b]

RangeInclusive(a, b) == [lo |-> a, hi |-> b + 1]

\* A faulty variant: an empty tail refused.
RangeFromOkStrict(a, len) == a < len

RangeFromOk(a, len) == a <= len

RangeFrom(a, len) == [lo |-> a, hi |-> len]

(***************************************************************************)
(* The start of the field that follows a field ending at index `end`: one  *)
(* byte for the delimiter, one to land on the next field (the `+ 2` of the *)
(* slice extraction).                                                      *)
(***************************************************************************)
\* A faulty variant: the delimiter not skipped.
NextStartOffByOne(end) == end + 1

NextStart(end) == end + 2

(***************************************************************************)
(* HashMap::new and HashMap::insert on slice keys: keys are compared by    *)
(* their bytes; inserting a key already present replaces the value and     *)
(* keeps the key slice stored first.                                       *)
(***************************************************************************)
EmptyMap == [k \in {} |-> [key |-> RangeInclusive(0, 0), value |-> RangeInclusive(0, 0)]]

\* A faulty variant: a key already present keeps its first value.
InsertKeepFirst(headers, d, key_slice, value_slice) ==
    LET k == Bytes(d, key_slice) IN
    IF k \in DOMAIN headers THEN headers
    ELSE [x \in DOMAIN headers \cup {k} |->
             IF x = k THEN [key |-> key_slice, value |-> value_slice] ELSE headers[x]]

Insert(headers, d, key_slice, value_slice) ==
    LET k == Bytes(d, key_slice) IN
    [x \in DOMAIN headers \cup {k} |->
        IF x = k
        THEN [key   |-> IF k \in DOMAIN headers THEN headers[k].key ELSE key_slice,
              value |-> value_slice]
        ELSE headers[x]]

(***************************************************************************)
(* The input buffers.  A message is laid out as in the tests' fixtures:    *)
(* f1 SP f2 SP f3 LF, then k ':' w LF per header line, then the            *)
(* terminator, then the body.                                              *)
(***************************************************************************)
HeaderLine(l) == l.k \o <<COLON>> \o l.w \o <<LF>>

RECURSIVE HeaderBlock(_)
HeaderBlock(ls) == IF ls = <<>> THEN <<>> ELSE HeaderLine(Head(ls)) \o HeaderBlock(Tail(ls))

Build(m) ==
    m.f1 \o <<SP>> \o m.f2 \o <<SP>> \o m.f3 \o <<LF>> \o HeaderBlock(m.lines) \o m.term \o m.body

\* Messages whose parts are all regular: "a", "b:" and (third field) "a b",
\* keys "a", "b", values "a", "a b", the CR LF terminator.
GoodMessages ==
    [f1    : {<<97>>, <<98, COLON>>},
     f2    : {<<97>>, <<97, 98>>},
     f3    : {<<97>>, <<98, CR>>, <<97, SP, 98>>},
     lines : SeqsUpTo([k : {<<97>>, <<98>>}, w : {<<97>>, <<97, SP, 98>>}], MaxHeaders),
     term  : {<<CR, LF>>},
     body  : {<<>>, <<97>>, <<LF, COLON, CR, SP>>}]

\* Messages with irregular parts: empty fields, empty keys and values, a
\* value holding a colon or a line-feed, a cut or broken terminator.
BadMessages ==
    [f1    : {<<97>>, <<>>},
     f2    : {<<97>>, <<>>},
     f3    : {<<97>>, <<>>},
     lines : SeqsUpTo([k : {<<97>>, <<>>},
                       w : {<<97>>, <<>>, <<98, COLON, 97>>, <<97, LF, 98>>}], MaxBadHeaders),
     term  : {<<CR, LF>>, <<CR>>, <<>>, <<CR, 97>>},
     body  : {<<>>, <<97>>}]

Messages == GoodMessages \cup BadMessages

\* Every byte string up to MaxLen over the four delimiters and one ordinary byte.
RawBuffers == SeqsUpTo({SP, LF, CR, COLON, 97}, MaxLen)

Init ==
    /\ kind \in {"parse_request", "parse_response"}
    /\ \/ \E m \in Messages : message = <<m>> /\ data = Build(m)
       \/ message = <<>> /\ data \in RawBuffers
    /\ pc = "loop"
    /\ i = 0
    /\ state = IF kind = "parse_request" THEN "Method" ELSE "HttpVersion"
    /\ is_end = FALSE
    /\ method = 0
    /\ url = 0
    /\ http_version = 0
    /\ status_code = 0
    /\ status = 0
    /\ header = 0
    /\ headers_key = <<>>
    /\ headers_value = <<>>
    /\ result = <<>>
    /\ first = <<>>

(***************************************************************************)
(* parse_request: the scanning loop, one action per arm of the match.      *)
(***************************************************************************)
InRequestLoop(s) ==
    /\ kind = "parse_request"
    /\ pc = "loop"
    /\ i < Len(data)
    /\ state = s

\* A faulty variant: the space after the method leads straight to HttpVersion.
RequestMethodSkipsUrl ==
    /\ InRequestLoop("Method")
    /\ IF Byte(data, i) = SP
       THEN state' = "HttpVersion" /\ method' = method
       ELSE state' = state /\ method' = i
    /\ i' = i + 1
    /\ UNCHANGED <<first, kind, data, message, pc, is_end, url, http_version, status_code,
                   status, header, headers_key, headers_value, result>>

RequestMethod ==
    /\ InRequestLoop("Method")
    /\ IF Byte(data, i) = SP
       THEN state' = "Url" /\ method' = method
       ELSE state' = state /\ method' = i
    /\ i' = i + 1
    /\ UNCHANGED <<first, kind, data, message, pc, is_end, url, http_version, status_code,
                   status, header, headers_key, headers_value, result>>

RequestUrl ==
    /\ InRequestLoop("Url")
    /\ IF Byte(data, i) = SP
       THEN state' = "HttpVersion" /\ url' = url
       ELSE state' = state /\ url' = i
    /\ i' = i + 1
    /\ UNCHANGED <<first, kind, data, message, pc, is_end, method, http_version, status_code,
                   status, header, headers_key, headers_value, result>>

RequestHttpVersion ==
    /\ InRequestLoop("HttpVersion")
    /\ IF Byte(data, i) = LF
       THEN state' = "Headers" /\ is_end' = FALSE /\ http_version' = http_version
       ELSE state' = state /\ is_end' = is_end /\ http_version' = i
    /\ i' = i + 1
    /\ UNCHANGED <<first, kind, data, message, pc, method, url, status_code,
                   status, header, headers_key, headers_value, result>>

\* A faulty variant: a byte other than line-feed after the blank line's CR
\* is taken as the start of a further header line instead of a panic.
RequestHeadersLenient ==
    /\ InRequestLoop("Headers")
    /\ IF is_end
       THEN /\ IF Byte(data, i) = LF
               THEN state' = "Body" /\ is_end' = is_end /\ header' = header
               ELSE state' = state /\ is_end' = FALSE /\ header' = i
            /\ UNCHANGED <<headers_key, headers_value>>
       ELSE IF Byte(data, i) = CR
       THEN /\ is_end' = TRUE
            /\ UNCHANGED <<state, header, headers_key, headers_value>>
       ELSE /\ IF Byte(data, i) = LF
               THEN /\ headers_value' = Append(headers_value, header)
                    /\ header' = 0
                    /\ headers_key' = headers_key
               ELSE IF Byte(data, i) = COLON
               THEN /\ headers_key' = Append(headers_key, header)
                    /\ header' = 0
                    /\ headers_value' = headers_value
               ELSE /\ header' = i
                    /\ UNCHANGED <<headers_key, headers_value>>
            /\ UNCHANGED <<state, is_end>>
    /\ pc' = pc /\ i' = i + 1
    /\ UNCHANGED <<first, kind, data, message, method, url, http_version, status_code,
                   status, result>>

RequestHeaders ==
    /\ InRequestLoop("Headers")
    /\ IF is_end
       THEN /\ IF Byte(data, i) = LF
               THEN state' = "Body" /\ pc' = pc /\ i' = i + 1
               ELSE state' = state /\ pc' = "panic_invalid_state" /\ i' = i
            /\ UNCHANGED <<is_end, header, headers_key, headers_value>>
       ELSE IF Byte(data, i) = CR
       THEN /\ is_end' = TRUE
            /\ UNCHANGED <<state, header, headers_key, headers_value>>
            /\ pc' = pc /\ i' = i + 1
       ELSE /\ IF Byte(data, i) = LF
               THEN /\ headers_value' = Append(headers_value, header)
                    /\ header' = 0
                    /\ headers_key' = headers_key
               ELSE IF Byte(data, i) = COLON
               THEN /\ headers_key' = Append(headers_key, header)
                    /\ header' = 0
                    /\ headers_value' = headers_value
               ELSE /\ header' = i
                    /\ UNCHANGED <<headers_key, headers_value>>
            /\ UNCHANGED <<state, is_end>>
            /\ pc' = pc /\ i' = i + 1
    /\ UNCHANGED <<first, kind, data, message, method, url, http_version, status_code,
                   status, result>>

\* A faulty variant: the Body arm without its break, so the loop runs on.
RequestBodyWithoutBreak ==
    /\ InRequestLoop("Body")
    /\ i' = i + 1
    /\ UNCHANGED <<first, kind, data, message, pc, state, is_end, method, url, http_version,
                   status_code, status, header, headers_key, headers_value, result>>

\* The loop ends: the Body arm breaks, or the iterator is exhausted.
RequestBody ==
    /\ InRequestLoop("Body")
    /\ pc' = "slices"
    /\ UNCHANGED <<first, kind, data, message, i, state, is_end, method, url, http_version,
                   status_code, status, header, headers_key, headers_value, result>>

RequestLoopEnd ==
    /\ kind = "parse_request"
    /\ pc = "loop"
    /\ i = Len(data)
    /\ pc' = "slices"
    /\ UNCHANGED <<first, kind, data, message, i, state, is_end, method, url, http_version,
                   status_code, status, header, headers_key, headers_value, result>>

(***************************************************************************)
(* parse_request: the slice extraction.  RequestHeaderMap is the loop over *)
(* the zipped key / value indices from its k-th pair on; it yields the     *)
(* final `last` and the map, or ok = FALSE when a slice index panics.      *)
(***************************************************************************)
RECURSIVE RequestHeaderMap(_, _, _, _, _, _)
RequestHeaderMap(d, keys, values, k, last, headers) ==
    IF k > Min(Len(keys), Len(values))
    THEN [ok |-> TRUE, last |-> last, headers |-> headers]
    ELSE LET key   == keys[k]
             value == values[k]
         IN  IF ~RangeInclusiveOk(last, key, Len(d)) \/ ~RangeInclusiveOk(NextStart(key), value, Len(d))
             THEN [ok |-> FALSE, last |-> last, headers |-> headers]
             ELSE RequestHeaderMap(d, keys, values, k + 1, NextStart(value),
                                   Insert(headers, d, RangeInclusive(last, key),
                                          RangeInclusive(NextStart(key), value)))

RequestSlices ==
    /\ kind = "parse_request"
    /\ pc = "slices"
    /\ LET len == Len(data)
           hm  == RequestHeaderMap(data, headers_key, headers_value, 1,
                                   NextStart(http_version), EmptyMap)
       IN  IF /\ RangeInclusiveOk(0, method, len)
              /\ RangeInclusiveOk(NextStart(method), url, len)
              /\ RangeInclusiveOk(NextStart(url), http_version, len)
              /\ hm.ok
              /\ RangeFromOk(NextStart(hm.last), len)
           THEN /\ pc' = "returned"
                /\ result' = <<[method       |-> RangeInclusive(0, method),
                                url          |-> RangeInclusive(NextStart(method), url),
                                http_version |-> RangeInclusive(NextStart(url), http_version),
                                headers      |-> hm.headers,
                                body         |-> RangeFrom(NextStart(hm.last), len)]>>
           ELSE /\ pc' = "panic_slice_index"
                /\ result' = result
    /\ UNCHANGED <<first, kind, data, message, i, state, is_end, method, url, http_version,
                   status_code, status, header, headers_key, headers_value>>

(***************************************************************************)
(* parse_response: the scanning loop.                                      *)
(***************************************************************************)
InResponseLoop(s) ==
    /\ kind = "parse_response"
    /\ pc = "loop"
    /\ i < Len(data)
    /\ state = s

ResponseHttpVersion ==
    /\ InResponseLoop("HttpVersion")
    /\ IF Byte(data, i) = SP
       THEN state' = "StatusCode" /\ http_version' = http_version
       ELSE state' = state /\ http_version' = i
    /\ i' = i + 1
    /\ UNCHANGED <<first, kind, data, message, pc, is_end, method, url, status_code,
                   status, header, headers_key, headers_value, result>>

ResponseStatusCode ==
    /\ InResponseLoop("StatusCode")
    /\ IF Byte(data, i) = SP
       THEN state' = "Status" /\ status_code' = status_code
       ELSE state' = state /\ status_code' = i
    /\ i' = i + 1
    /\ UNCHANGED <<first, kind, data, message, pc, is_end, method, url, http_version,
                   status, header, headers_key, headers_value, result>>

\* A faulty variant: the status closed by a space, like the two fields before it.
StatusEndsAtSpace(current) == current = SP

\* The byte that closes the status, the third field of the status line.
StatusEnds(current) == current = LF

ResponseStatus ==
    /\ InResponseLoop("Status")
    /\ IF StatusEnds(Byte(data, i))
       THEN state' = "Headers" /\ is_end' = FALSE /\ status' = status
       ELSE state' = state /\ is_end' = is_end /\ status' = i
    /\ i' = i + 1
    /\ UNCHANGED <<first, kind, data, message, pc, method, url, http_version, status_code,
                   header, headers_key, headers_value, result>>

ResponseHeaders ==
    /\ InResponseLoop("Headers")
    /\ IF is_end
       THEN /\ IF Byte(data, i) = LF
               THEN state' = "Body" /\ pc' = pc /\ i' = i + 1
               ELSE state' = state /\ pc' = "panic_invalid_state" /\ i' = i
            /\ UNCHANGED <<is_end, header, headers_key, headers_value>>
       ELSE IF Byte(data, i) = CR
       THEN /\ is_end' = TRUE
            /\ UNCHANGED <<state, header, headers_key, headers_value>>
            /\ pc' = pc /\ i' = i + 1
       ELSE /\ IF Byte(data, i) = LF
               THEN /\ headers_value' = Append(headers_value, header)
                    /\ header' = 0
                    /\ headers_key' = headers_key
               ELSE IF Byte(data, i) = COLON
               THEN /\ headers_key' = Append(headers_key, header)
                    /\ header' = 0
                    /\ headers_value' = headers_value
               ELSE /\ header' = i
                    /\ UNCHANGED <<headers_key, headers_value>>
            /\ UNCHANGED <<state, is_end>>
            /\ pc' = pc /\ i' = i + 1
    /\ UNCHANGED <<first, kind, data, message, method, url, http_version, status_code,
                   status, result>>

ResponseBody ==
    /\ InResponseLoop("Body")
    /\ pc' = "slices"
    /\ UNCHANGED <<first, kind, data, message, i, state, is_end, method, url, http_version,
                   status_code, status, header, headers_key, headers_value, result>>

ResponseLoopEnd ==
    /\ kind = "parse_response"
    /\ pc = "loop"
    /\ i = Len(data)
    /\ pc' = "slices"
    /\ UNCHANGED <<first, kind, data, message, i, state, is_end, method, url, http_version,
                   status_code, status, header, headers_key, headers_value, result>>

(***************************************************************************)
(* parse_response: the slice extraction.                                   *)
(***************************************************************************)
RECURSIVE ResponseHeaderMap(_, _, _, _, _, _)
ResponseHeaderMap(d, keys, values, k, last, headers) ==
    IF k > Min(Len(keys), Len(values))
    THEN [ok |-> TRUE, last |-> last, headers |-> headers]
    ELSE LET key   == keys[k]
             value == values[k]
         IN  IF ~RangeInclusiveOk(last, key, Len(d)) \/ ~RangeInclusiveOk(NextStart(key), value, Len(d))
             THEN [ok |-> FALSE, last |-> last, headers |-> headers]
             ELSE ResponseHeaderMap(d, keys, values, k + 1, NextStart(value),
                                    Insert(headers, d, RangeInclusive(last, key),
                                           RangeInclusive(NextStart(key), value)))

ResponseSlices ==
    /\ kind = "parse_response"
    /\ pc = "slices"
    /\ LET len == Len(data)
           hm  == ResponseHeaderMap(data, headers_key, headers_value, 1,
                                    NextStart(status), EmptyMap)
       IN  IF /\ RangeInclusiveOk(0, http_version, len)
              /\ RangeInclusiveOk(NextStart(http_version), status_code, len)
              /\ RangeInclusiveOk(NextStart(status_code), status, len)
              /\ hm.ok
              /\ RangeFromOk(NextStart(hm.last), len)
           THEN /\ pc' = "returned"
                /\ result' = <<[status       |-> RangeInclusive(NextStart(status_code), status),
                                status_code  |-> RangeInclusive(NextStart(http_version), status_code),
                                http_version |-> RangeInclusive(0, http_version),
                                headers      |-> hm.headers,
                                body         |-> RangeFrom(NextStart(hm.last), len)]>>
           ELSE /\ pc' = "panic_slice_index"
                /\ result' = result
    /\ UNCHANGED <<first, kind, data, message, i, state, is_end, method, url, http_version,
                   status_code, status, header, headers_key, headers_value>>

Next ==
    \/ RequestMethod
    \/ RequestUrl
    \/ RequestHttpVersion
    \/ RequestHeaders
    \/ RequestBody
    \/ RequestLoopEnd
    \/ RequestSlices
    \/ ResponseHttpVersion
    \/ ResponseStatusCode
    \/ ResponseStatus
    \/ ResponseHeaders
    \/ ResponseBody
    \/ ResponseLoopEnd
    \/ ResponseSlices

Spec == Init /\ [][Next]_vars

(***************************************************************************)
(* A second call.  The functions keep nothing between calls: every local   *)
(* is declared anew at entry.  `first` records what the first call ended   *)
(* with: its arguments, how it ended, its result and its final locals.     *)
(***************************************************************************)
Locals == <<i, state, is_end, method, url, http_version, status_code, status,
            header, headers_key, headers_value>>

Ended == pc \in {"returned", "panic_invalid_state", "panic_slice_index"}

Outcome == [kind |-> kind, data |-> data, pc |-> pc, result |-> result, locals |-> Locals]

\* The locals other than the two vectors, as declared at the entry of function k.
EnterScalars(k) ==
    /\ pc' = "loop"
    /\ i' = 0
    /\ state' = IF k = "parse_request" THEN "Method" ELSE "HttpVersion"
    /\ is_end' = FALSE
    /\ method' = 0
    /\ url' = 0
    /\ http_version' = 0
    /\ status_code' = 0
    /\ status' = 0
    /\ header' = 0
    /\ result' = <<>>

\* A faulty variant: the two index vectors kept from the call before.
ParseAgainKeepingVectors ==
    /\ Ended /\ first = <<>>
    /\ first' = <<Outcome>>
    /\ EnterScalars(kind)
    /\ UNCHANGED <<kind, data, message, headers_key, headers_value>>

\* The same function called again on the same buffer.
ParseAgain ==
    /\ Ended /\ first = <<>>
    /\ first' = <<Outcome>>
    /\ EnterScalars(kind)
    /\ headers_key' = <<>>
    /\ headers_value' = <<>>
    /\ UNCHANGED <<kind, data, message>>

NextAgain == Next \/ ParseAgain

SpecAgain == Init /\ [][NextAgain]_vars

(***************************************************************************)
(* A second call of the same function on a buffer that equals the first    *)
(* up to and including the blank line's line-feed (the first call's scan   *)
(* ended in Body, i bytes in) and has another tail after it.               *)
(***************************************************************************)
OtherTails == {<<>>, <<98>>, <<CR, LF, 98, COLON>>}

ParseOtherTail ==
    /\ Ended /\ first = <<>>
    /\ state = "Body"
    /\ first' = <<Outcome>>
    /\ \E t \in OtherTails : data' = SubSeq(data, 1, i) \o t
    /\ message' = <<>>
    /\ EnterScalars(kind)
    /\ headers_key' = <<>>
    /\ headers_value' = <<>>
    /\ UNCHANGED kind

NextTail == Next \/ ParseOtherTail

SpecTail == Init /\ [][NextTail]_vars

(***************************************************************************)
(* A second call, of the other function, on the same buffer.               *)
(***************************************************************************)
OtherKind == IF kind = "parse_request" THEN "parse_response" ELSE "parse_request"

ParseWithOther ==
    /\ Ended /\ first = <<>>
    /\ first' = <<Outcome>>
    /\ kind' = OtherKind
    /\ EnterScalars(OtherKind)
    /\ headers_key' = <<>>
    /\ headers_value' = <<>>
    /\ UNCHANGED <<data, message>>

NextOther == Next \/ ParseWithOther

SpecOther == Init /\ [][NextOther]_vars

(***************************************************************************)
(* Vocabulary of the properties.                                           *)
(***************************************************************************)
Returned == pc = "returned"

Panicked == pc \in {"panic_invalid_state", "panic_slice_index"}

Finished == Returned \/ Panicked

IsRequest == kind = "parse_request"

\* The returned structure and its start-line fields in buffer order.
Res == result[1]

Field1 == IF IsRequest THEN Res.method ELSE Res.http_version

Field2 == IF IsRequest THEN Res.url ELSE Res.status_code

Field3 == IF IsRequest THEN Res.http_version ELSE Res.status

\* The parts the buffer was laid out from.
Msg == message[1]

BytesOf(s) == {s[n] : n \in DOMAIN s}

NoneOf(s, B) == BytesOf(s) \cap B = {}

\* The header block of the message is regular: every key and value is
\* non-empty and holds no ':', LF or CR, and the terminator is CR LF.
RegularHeaders ==
    /\ \A n \in DOMAIN Msg.lines :
          /\ Msg.lines[n].k # <<>> /\ NoneOf(Msg.lines[n].k, {COLON, LF, CR})
          /\ Msg.lines[n].w # <<>> /\ NoneOf(Msg.lines[n].w, {COLON, LF, CR})
    /\ Msg.term = <<CR, LF>>

\* M SP U SP V LF (K ':' W LF)* CR LF B with M, U, V free of SP and LF.
WellFormedRequest ==
    /\ IsRequest
    /\ message # <<>>
    /\ Msg.f1 # <<>> /\ NoneOf(Msg.f1, {SP, LF})
    /\ Msg.f2 # <<>> /\ NoneOf(Msg.f2, {SP, LF})
    /\ Msg.f3 # <<>> /\ NoneOf(Msg.f3, {SP, LF})
    /\ RegularHeaders

\* V SP C SP S LF (K ':' W LF)* CR LF B with V, C free of SP and LF and S of LF.
WellFormedResponse ==
    /\ ~IsRequest
    /\ message # <<>>
    /\ Msg.f1 # <<>> /\ NoneOf(Msg.f1, {SP, LF})
    /\ Msg.f2 # <<>> /\ NoneOf(Msg.f2, {SP, LF})
    /\ Msg.f3 # <<>> /\ NoneOf(Msg.f3, {LF})
    /\ RegularHeaders

WellFormed == WellFormedRequest \/ WellFormedResponse

\* The mapping holds exactly the keys of the header lines, each with the
\* value of one of the lines carrying that key.
HeadersAreTheLines ==
    /\ DOMAIN Res.headers = {Msg.lines[n].k : n \in DOMAIN Msg.lines}
    /\ \A k \in DOMAIN Res.headers :
          /\ Bytes(data, Res.headers[k].key) = k
          /\ \E n \in DOMAIN Msg.lines :
                Msg.lines[n].k = k /\ Msg.lines[n].w = Bytes(data, Res.headers[k].value)

(***************************************************************************)
(* C1: for every well-formed request buffer M SP U SP V LF (K:W LF)* CR LF *)
(* B, parse_request returns method = M, url = U, http_version = V, the     *)
(* headers mapping with exactly the entries K -> W and body = B.           *)
(***************************************************************************)
C1_RequestParsed ==
    WellFormedRequest /\ Finished =>
        /\ Returned
        /\ Bytes(data, Res.method) = Msg.f1
        /\ Bytes(data, Res.url) = Msg.f2
        /\ Bytes(data, Res.http_version) = Msg.f3
        /\ HeadersAreTheLines
        /\ Bytes(data, Res.body) = Msg.body

C1_Witness ==
    /\ WellFormedRequest /\ Returned
    /\ Len(Msg.lines) = 2 /\ Msg.lines[1].k # Msg.lines[2].k
    /\ Len(Msg.f1) = 2 /\ Len(Msg.f2) = 2
    /\ Msg.body # <<>>

(***************************************************************************)
(* C2: for every well-formed response buffer V SP C SP S LF (K:W LF)* CR   *)
(* LF B, where S may hold spaces, parse_response returns http_version = V, *)
(* status_code = C, status = S, the headers mapping with exactly the       *)
(* entries K -> W and body = B.                                            *)
(***************************************************************************)
C2_ResponseParsed ==
    WellFormedResponse /\ Finished =>
        /\ Returned
        /\ Bytes(data, Res.http_version) = Msg.f1
        /\ Bytes(data, Res.status_code) = Msg.f2
        /\ Bytes(data, Res.status) = Msg.f3
        /\ HeadersAreTheLines
        /\ Bytes(data, Res.body) = Msg.body

C2_Witness ==
    /\ WellFormedResponse /\ Returned
    /\ SP \in BytesOf(Msg.f3)
    /\ Len(Msg.lines) = 2
    /\ Msg.body # <<>>

(***************************************************************************)
(* The output slices in buffer order: the three start-line fields, the     *)
(* key and value of every entry of the mapping (entries by the offset of   *)
(* their key), the body.                                                   *)
(***************************************************************************)
Entries == {Res.headers[k] : k \in DOMAIN Res.headers}

RECURSIVE EntrySlices(_)
EntrySlices(es) ==
    IF es = {} THEN <<>>
    ELSE LET e == CHOOSE x \in es : \A y \in es : x.key.lo <= y.key.lo
         IN  <<e.key, e.value>> \o EntrySlices(es \ {e})

OutputSlices == <<Field1, Field2, Field3>> \o EntrySlices(Entries) \o <<Res.body>>

Disjoint ==
    \A p, q \in DOMAIN OutputSlices :
        p < q => \/ OutputSlices[p].hi <= OutputSlices[q].lo
                 \/ OutputSlices[q].hi <= OutputSlices[p].lo

\* The output slices joined by their delimiters.
RECURSIVE JoinEntries(_)
JoinEntries(ss) ==
    IF ss = <<>> THEN <<>>
    ELSE Bytes(data, ss[1]) \o <<COLON>> \o Bytes(data, ss[2]) \o <<LF>>
         \o JoinEntries(SubSeq(ss, 3, Len(ss)))

Rejoined ==
    Bytes(data, Field1) \o <<SP>> \o Bytes(data, Field2) \o <<SP>> \o Bytes(data, Field3)
    \o <<LF>> \o JoinEntries(EntrySlices(Entries)) \o <<CR, LF>> \o Bytes(data, Res.body)

DistinctKeys ==
    \A m, n \in DOMAIN Msg.lines : m # n => Msg.lines[m].k # Msg.lines[n].k

(***************************************************************************)
(* C3 as stated: for all well-formed inputs the output slices are          *)
(* disjoint and, joined by their delimiters, equal the input buffer byte   *)
(* for byte.  Fails when a key repeats: the mapping keeps one entry for    *)
(* it, and the earlier line's value is no output slice.                    *)
(***************************************************************************)
C3_Original ==
    WellFormed /\ Returned => Disjoint /\ Rejoined = data

(***************************************************************************)
(* C3 amended: for all well-formed inputs the output slices are disjoint,  *)
(* and when the header keys are pairwise distinct they equal the input     *)
(* buffer byte for byte once joined by their delimiters.                   *)
(***************************************************************************)
C3_DisjointAndRejoin ==
    WellFormed /\ Finished =>
        /\ Returned
        /\ Disjoint
        /\ DistinctKeys => Rejoined = data

C3_Witness ==
    /\ WellFormed /\ Returned
    /\ Len(Msg.lines) = 2 /\ DistinctKeys
    /\ Rejoined = data

(***************************************************************************)
(* C4: in every returned result the first and second start-line fields     *)
(* hold no space and the third holds no line-feed.  Violated by the code:  *)
(* a buffer that starts with a space leaves the first field's end index    *)
(* at its default 0, and the slice data[..=0] is that space.               *)
(***************************************************************************)
C4_FieldsExcludeDelimiters ==
    Returned =>
        /\ NoneOf(Bytes(data, Field1), {SP})
        /\ NoneOf(Bytes(data, Field2), {SP})
        /\ NoneOf(Bytes(data, Field3), {LF})

(***************************************************************************)
(* C5: in every returned result no header key and no header value holds a  *)
(* colon, a line-feed or a carriage-return.  Violated by the code: a       *)
(* second colon on a header line pushes a second key index, and the value  *)
(* slice then runs from the first colon to the end of the line.            *)
(***************************************************************************)
C5_HeadersExcludeDelimiters ==
    Returned =>
        \A k \in DOMAIN Res.headers :
            /\ NoneOf(Bytes(data, Res.headers[k].key), {COLON, LF, CR})
            /\ NoneOf(Bytes(data, Res.headers[k].value), {COLON, LF, CR})

(***************************************************************************)
(* C6: in every returned result the body starts right after the line-feed  *)
(* of the blank line, the two bytes before it being CR LF, and runs to the *)
(* end of the buffer.  Violated by the code: it returns for buffers whose  *)
(* scan never met the blank line, or whose key and value counts differ.    *)
(***************************************************************************)
C6_BodyFollowsBlankLine ==
    Returned =>
        /\ Res.body.hi = Len(data)
        /\ Res.body.lo >= 2
        /\ Byte(data, Res.body.lo - 2) = CR
        /\ Byte(data, Res.body.lo - 1) = LF
        /\ state = "Body" /\ Res.body.lo = i

\* The last header line of the message that carries key k.
LastLineWith(k) ==
    CHOOSE n \in DOMAIN Msg.lines :
        /\ Msg.lines[n].k = k
        /\ \A m \in DOMAIN Msg.lines : Msg.lines[m].k = k => m <= n

(***************************************************************************)
(* C7: for every well-formed message in which a key occurs on two or more  *)
(* header lines, the mapping holds one entry for the key, with the value   *)
(* of the last line carrying it.                                           *)
(***************************************************************************)
C7_LastDuplicateWins ==
    WellFormed /\ Finished =>
        /\ Returned
        /\ \A m, n \in DOMAIN Msg.lines :
              m < n /\ Msg.lines[m].k = Msg.lines[n].k =>
                 /\ Msg.lines[n].k \in DOMAIN Res.headers
                 /\ Bytes(data, Res.headers[Msg.lines[n].k].value)
                       = Msg.lines[LastLineWith(Msg.lines[n].k)].w

C7_Witness ==
    /\ WellFormed /\ Returned
    /\ Len(Msg.lines) = 2
    /\ Msg.lines[1].k = Msg.lines[2].k
    /\ Msg.lines[1].w # Msg.lines[2].w
    /\ Bytes(data, Res.headers[Msg.lines[2].k].value) = Msg.lines[2].w

(***************************************************************************)
(* C8: for every well-formed message that ends with its CR LF terminator,  *)
(* with any number of header lines, the call returns with a zero-length    *)
(* body (and, with no header line, an empty mapping).                      *)
(***************************************************************************)
C8_EmptyBodyReturns ==
    WellFormed /\ Msg.body = <<>> /\ Finished =>
        /\ Returned
        /\ Res.body.lo = Len(data) /\ Res.body.hi = Len(data)
        /\ Msg.lines = <<>> => DOMAIN Res.headers = {}

C8_Witness ==
    /\ WellFormed /\ Returned
    /\ Msg.body = <<>> /\ Msg.lines = <<>>
    /\ Bytes(data, Res.body) = <<>>
    /\ DOMAIN Res.headers = {}

\* The scan ran out of bytes before the blank line was consumed.
Truncated == state # "Body" /\ i = Len(data)

(***************************************************************************)
(* C9: every buffer that ends before the blank line's CR LF has been       *)
(* consumed ends the call in an out-of-bounds slice access and returns no  *)
(* result.  Violated by the code: for a buffer cut inside the header       *)
(* block every slice index can be in range, and a result is returned.      *)
(***************************************************************************)
C9_TruncatedPanics ==
    Truncated /\ Finished => pc = "panic_slice_index"

(***************************************************************************)
(* C10: on malformed input the call surfaces a failure and never panics.   *)
(* Violated by the code: a byte other than line-feed after the blank       *)
(* line's CR reaches panic!("invalid state"), and a slice index out of     *)
(* range panics as well.                                                   *)
(***************************************************************************)
C10_NeverPanics ==
    ~Panicked

(***************************************************************************)
(* C11: parsing the same buffer twice yields equal outcomes: two runs of   *)
(* the same function over the same buffer both panic (the same way) or     *)
(* both return the same fields, headers mapping and body; nothing is       *)
(* carried from one call to the next.  Checked under SpecAgain.            *)
(***************************************************************************)
C11_SecondCallAgrees ==
    first # <<>> /\ Finished =>
        /\ pc = first[1].pc
        /\ result = first[1].result
        /\ Locals = first[1].locals

C11_Witness ==
    /\ first # <<>> /\ Returned
    /\ DOMAIN Res.headers # {}
    /\ result = first[1].result

(***************************************************************************)
(* C12: the scanner ends the header block only on a blank line: whenever   *)
(* is_end is set on a carriage-return, that byte directly follows the      *)
(* line-feed of the start line or of the previous header line.  Violated   *)
(* by the code: in Headers(is_end = false) every carriage-return sets      *)
(* is_end, also one that follows key or value bytes of the line.           *)
(***************************************************************************)
C12_EndOnlyOnBlankLine ==
    state = "Headers" /\ is_end =>
        /\ i >= 2
        /\ Byte(data, i - 1) = CR
        /\ Byte(data, i - 2) = LF

\* The line-feed that closes the start line: the first one after the second space.
FirstIndex(S) == CHOOSE p \in S : \A q \in S : p <= q

Spaces == {p \in 0..(Len(data) - 1) : Byte(data, p) = SP}

SecondSpace == FirstIndex({p \in Spaces : p > FirstIndex(Spaces)})

StartLineEnd ==
    FirstIndex({p \in (SecondSpace + 1)..(Len(data) - 1) : Byte(data, p) = LF})

\* With the scanner in Body (i is just past the blank line's CR LF): the
\* line-feeds that close header lines, and the n-th header line's extent.
LineFeeds == {p \in (StartLineEnd + 1)..(i - 3) : Byte(data, p) = LF}

LineEnd(n) == CHOOSE p \in LineFeeds : Cardinality({q \in LineFeeds : q < p}) = n - 1

LineStart(n) == IF n = 1 THEN StartLineEnd + 1 ELSE LineEnd(n - 1) + 1

(***************************************************************************)
(* C13: for every input on which the scan reaches Body, headers_key and    *)
(* headers_value have the same length, the number of header lines          *)
(* scanned, and the n-th key index and n-th value index both lie inside    *)
(* the n-th header line.  Violated by the code: a line with two colons     *)
(* pushes two key indices, a line with none pushes no key index, and an    *)
(* empty key or value pushes the index 0.                                  *)
(***************************************************************************)
C13_ParallelIndexSequences ==
    state = "Body" =>
        /\ Len(headers_key) = Cardinality(LineFeeds)
        /\ Len(headers_value) = Cardinality(LineFeeds)
        /\ \A n \in 1..Cardinality(LineFeeds) :
              /\ LineStart(n) <= headers_key[n] /\ headers_key[n] < LineEnd(n)
              /\ LineStart(n) <= headers_value[n] /\ headers_value[n] < LineEnd(n)

(***************************************************************************)
(* The scanner's position along field 1 -> field 2 -> field 3 ->           *)
(* Headers(is_end = false) -> Headers(is_end = true) -> Body, and the      *)
(* recorded end index of each start-line field.                            *)
(***************************************************************************)
Rank ==
    CASE state = "Method"      -> 1
      [] state = "Url"         -> 2
      [] state = "HttpVersion" -> IF IsRequest THEN 3 ELSE 1
      [] state = "StatusCode"  -> 2
      [] state = "Status"      -> 3
      [] state = "Headers"     -> IF is_end THEN 5 ELSE 4
      [] state = "Body"        -> 6

Index1 == IF IsRequest THEN method ELSE http_version

Index2 == IF IsRequest THEN url ELSE status_code

Index3 == IF IsRequest THEN http_version ELSE status

(***************************************************************************)
(* C19: every recorded field-end index is the index of an ordinary byte of *)
(* the field it is recorded for: once the scanner has left a start-line    *)
(* field, the field's index points at a byte scanned in that field's       *)
(* state, and every index pushed to headers_key or headers_value lies      *)
(* past the start line, never the default 0.  Violated by the code: a      *)
(* field, key or value with no bytes leaves (or pushes) the default 0.     *)
(***************************************************************************)
C19_IndicesPointIntoTheirField ==
    /\ Rank >= 2 => Byte(data, Index1) # SP
    /\ Rank >= 3 => Index2 > Index1 /\ Byte(data, Index2) # SP
    /\ Rank >= 4 => Index3 > Index2 /\ Byte(data, Index3) # LF
    /\ \A n \in DOMAIN headers_key : headers_key[n] > Index3
    /\ \A n \in DOMAIN headers_value : headers_value[n] > Index3

(***************************************************************************)
(* C14: in Headers with is_end = true the only byte accepted is line-feed, *)
(* which moves the scanner to Body; every other byte panics, so no byte    *)
(* takes the scanner from Headers(is_end = true) back to Headers(is_end =  *)
(* false) or to any state other than Body.                                 *)
(***************************************************************************)
C14_EndStateOnlyToBody ==
    [][pc = "loop" /\ state = "Headers" /\ is_end =>
          \/ /\ i < Len(data) /\ Byte(data, i) = LF
             /\ state' = "Body" /\ pc' = "loop"
          \/ /\ i < Len(data) /\ Byte(data, i) # LF
             /\ state' = "Headers" /\ is_end' /\ pc' = "panic_invalid_state"
          \/ /\ i = Len(data)
             /\ state' = "Headers" /\ is_end' /\ pc' = "slices"]_vars

C14_Witness ==
    /\ pc = "panic_invalid_state"
    /\ state = "Headers" /\ is_end
    /\ Byte(data, i) \in {CR, COLON, SP, 97}

(***************************************************************************)
(* C15: the scan never backtracks: the scanner state only moves forward    *)
(* along field 1 -> field 2 -> field 3 -> Headers(false) -> Headers(true)  *)
(* -> Body, one state at a time, and the byte index only moves forward,    *)
(* one byte at a time.                                                     *)
(***************************************************************************)
C15_NoBacktracking ==
    [][/\ Rank' \in {Rank, Rank + 1}
       /\ i' \in {i, i + 1}
       /\ i' = i + 1 => pc = "loop" /\ i < Len(data)]_vars

C15_Witness ==
    /\ Rank = 6 /\ Finished
    /\ i < Len(data)
    /\ headers_value # <<>>

\* The first call's result, its start-line fields in buffer order.
FirstRes == first[1].result[1]

FirstField1 == IF IsRequest THEN FirstRes.method ELSE FirstRes.http_version

FirstField2 == IF IsRequest THEN FirstRes.url ELSE FirstRes.status_code

FirstField3 == IF IsRequest THEN FirstRes.http_version ELSE FirstRes.status

\* The headers mappings of the two calls hold the same keys with the same values.
SameHeaders ==
    /\ DOMAIN Res.headers = DOMAIN FirstRes.headers
    /\ \A k \in DOMAIN Res.headers :
          Bytes(data, Res.headers[k].value)
             = Bytes(first[1].data, FirstRes.headers[k].value)

(***************************************************************************)
(* C16: once the scanner is in Body the loop ends: no byte after the blank *)
(* line's line-feed changes the scanner state, a recorded index or the     *)
(* index sequences, so two buffers that differ only after that line-feed   *)
(* yield equal start-line fields and equal headers mappings, and each      *)
(* body is its own buffer's suffix.  Checked under SpecTail.               *)
(***************************************************************************)
C16_TailDoesNotMatter ==
    first # <<>> /\ Finished =>
        /\ Locals = first[1].locals
        /\ pc = first[1].pc
        /\ Returned =>
              /\ Bytes(data, Field1) = Bytes(first[1].data, FirstField1)
              /\ Bytes(data, Field2) = Bytes(first[1].data, FirstField2)
              /\ Bytes(data, Field3) = Bytes(first[1].data, FirstField3)
              /\ SameHeaders
              /\ Res.body.lo = FirstRes.body.lo
              /\ Res.body.hi = Len(data)

C16_Witness ==
    /\ first # <<>> /\ Returned
    /\ data # first[1].data
    /\ Len(data) > i
    /\ DOMAIN Res.headers # {}
    /\ Bytes(data, Res.body) # Bytes(first[1].data, FirstRes.body)

\* The start-line fields, in buffer order, of a first call made with the
\* other function.
OtherField1 == IF IsRequest THEN FirstRes.http_version ELSE FirstRes.method

OtherField2 == IF IsRequest THEN FirstRes.status_code ELSE FirstRes.url

OtherField3 == IF IsRequest THEN FirstRes.status ELSE FirstRes.http_version

(***************************************************************************)
(* C17: the two functions are one automaton with renamed fields: on every  *)
(* buffer parse_request panics exactly when parse_response does, and when  *)
(* both return, request.method = response.http_version, request.url =      *)
(* response.status_code, request.http_version = response.status, and the   *)
(* headers mappings and the bodies are equal.  Checked under SpecOther.    *)
(***************************************************************************)
C17_RequestMirrorsResponse ==
    first # <<>> /\ Finished =>
        /\ kind # first[1].kind
        /\ Panicked <=> first[1].pc # "returned"
        /\ Returned =>
              /\ Field1 = OtherField1
              /\ Field2 = OtherField2
              /\ Field3 = OtherField3
              /\ Res.headers = FirstRes.headers
              /\ Res.body = FirstRes.body

C17_Witness ==
    /\ first # <<>> /\ Returned
    /\ kind # first[1].kind
    /\ DOMAIN Res.headers # {}
    /\ SP \in BytesOf(Bytes(data, Field3))
    /\ Field3 = OtherField3

(***************************************************************************)
(* The layout of the returned slices.  A slice [lo, hi) made by            *)
(* &data[a..=b] has end index b = hi - 1, and the slice made after it      *)
(* starts at b + 2.                                                        *)
(***************************************************************************)
EndIndex(s) == s.hi - 1

HeaderSlices == EntrySlices(Entries)

\* The start-line fields start at 0 and 2 past the recorded end indices.
StartLineChain ==
    /\ Field1.lo = 0
    /\ Field2.lo = Index1 + 2
    /\ Field3.lo = Index2 + 2

\* Every slice of the result, in the order of OutputSlices, ends before the
\* next one starts.
InBufferOrder ==
    \A p \in 1..(Len(OutputSlices) - 1) : OutputSlices[p].hi <= OutputSlices[p + 1].lo

\* Each value starts 2 past its key's end index and each next key 2 past
\* the previous value's end index.
HeaderChain ==
    \A n \in 2..Len(HeaderSlices) : HeaderSlices[n].lo = EndIndex(HeaderSlices[n - 1]) + 2

BodyLast ==
    /\ Res.body.hi = Len(data)
    /\ Res.body.lo >= Field3.hi
    /\ \A e \in Entries : Res.body.lo > e.key.hi /\ Res.body.lo > e.value.hi

\* No key occurs on two of the zipped header lines: one entry per line.
OneEntryPerLine ==
    Cardinality(DOMAIN Res.headers) = Min(Len(headers_key), Len(headers_value))

(***************************************************************************)
(* C18 as stated: in every returned result the slices lie in buffer order  *)
(* and do not overlap, field1 starts at 0, each following start-line field *)
(* 2 past the previous recorded end index, each key at or after the end of *)
(* the third field, each value 2 past its key's end index, each next key   *)
(* 2 past the previous value's end index, and body after every header      *)
(* slice, ending at the buffer's end.  Fails when a key repeats: the entry *)
(* keeps the first line's key slice with the last line's value slice.      *)
(***************************************************************************)
C18_Original ==
    Returned =>
        /\ StartLineChain
        /\ \A e \in Entries : e.key.lo >= Field3.hi
        /\ HeaderChain
        /\ BodyLast
        /\ InBufferOrder
        /\ Disjoint

(***************************************************************************)
(* C18 amended: in every returned result, for any input, the slices are    *)
(* pairwise non-overlapping, field1 starts at 0, each following start-line *)
(* field starts 2 past the previous recorded end index, each key starts at *)
(* or after the end of the third field, each value starts at least 2 past  *)
(* its key's end index, and body starts after every header slice and ends  *)
(* at the buffer's end; when no key repeats, the slices lie in buffer      *)
(* order, each value exactly 2 past its key's end index and each next key  *)
(* exactly 2 past the previous value's end index.                          *)
(***************************************************************************)
C18_SlicesInOrder ==
    Returned =>
        /\ StartLineChain
        /\ \A e \in Entries : e.key.lo >= Field3.hi /\ e.value.lo >= EndIndex(e.key) + 2
        /\ BodyLast
        /\ Disjoint
        /\ OneEntryPerLine => HeaderChain /\ InBufferOrder

C18_Witness ==
    /\ Returned
    /\ Cardinality(DOMAIN Res.headers) = 2
    /\ OneEntryPerLine
    /\ Res.body.lo < Res.body.hi

====
